---------------------------- MODULE Spec2Model ----------------------------
(***************************************************************************)
(* A model of WebCrawler (src/web_scrapping/webcrawling.py): the regex     *)
(* link extractor, the batch fetch crawl_multi_urls, the two discovery     *)
(* strategies and the two-stage run_crawling_pipeline.                     *)
(*                                                                         *)
(* Text is a sequence of tokens.  Each token stands for a fixed piece of   *)
(* text: "http", "s", "://", ".html", ".htm" are those literal strings,    *)
(* " " is a whitespace character, ")" and "]" are the two closing          *)
(* brackets, and "a", "b", "c", "x" are four ordinary characters.  No      *)
(* token boundary can produce the string "http" or "://" by concatenation, *)
(* so the regular expression can be run token by token.                    *)
(*                                                                         *)
(* The Fetcher (crawl4ai's arun_many) and the Extractor (the chat          *)
(* completion client) are collaborators: the model draws their outcomes    *)
(* nondeterministically.  A Python list built from a set has no fixed      *)
(* order: such a list is any ordering of the set.                          *)
(***************************************************************************)
EXTENDS Naturals, Sequences, FiniteSets, TLC

VARIABLES
    web,                        \* what the Fetcher finds at each URL
    system_prompt,              \* self.system_prompt, set by __init__
    pc,                         \* position of the one call this behaviour makes
    urls,                       \* the urls argument of the call
    use_llm_extraction,         \* argument of run_crawling_pipeline
    save_intermediate_results,  \* argument of run_crawling_pipeline
    initial_markdowns,          \* local of run_crawling_pipeline
    urls_to_crawl,              \* local of run_crawling_pipeline
    final_markdowns,            \* local of run_crawling_pipeline
    ret,                        \* what the call gave its caller
    again,                      \* what a repeated call gave its caller
    fetchLog,                   \* the url lists handed to arun_many, in order
    fetcherFailed,              \* the Fetcher failed as a whole in some call
    llm_extracted_urls,         \* extracted_urls of run_crawling_pipeline (LLM responses)
    llmCalls,                   \* number of Extractor calls issued
    llmLog,                     \* what each Extractor call issued did, in order
    strategyLog,                \* the discovery strategies invoked, in order
    files,                      \* the three files the crawler writes
    saveFailed,                 \* some write to a file failed
    text,                       \* input of extract_urls_with_regex
    pages                       \* input of extract_urls_from_markdowns_with_regex

vars == <<web, system_prompt, pc, urls, use_llm_extraction,
          save_intermediate_results, initial_markdowns, urls_to_crawl,
          final_markdowns, llm_extracted_urls, ret, again, fetchLog, fetcherFailed,
          llmCalls, llmLog, strategyLog, files, saveFailed, text, pages>>

\* what only the LLM strategy changes
llmVars == <<llm_extracted_urls, llmCalls, llmLog>>

-----------------------------------------------------------------------------
(* Bounds *)

\* longest urls argument
MaxSeeds == 2

\* most pieces concatenated into the text given to extract_urls_with_regex
MaxPieces == 3

\* longest markdowns argument of extract_urls_from_markdowns_with_regex
MaxPages == 2

-----------------------------------------------------------------------------
(* Sequences *)

Range(s) == {s[i] : i \in 1..Len(s)}

\* every list holding each element of S once: list(S) for a Python set S
ListsOfSet(S) ==
    {s \in [1..Cardinality(S) -> S] : \A i, j \in 1..Cardinality(S) : s[i] = s[j] => i = j}

\* the orderings of the list s
Orderings(s) == {[i \in 1..Len(s) |-> s[p[i]]] : p \in Permutations(1..Len(s))}

RECURSIVE Concat(_)
Concat(ss) == IF ss = <<>> THEN <<>> ELSE Head(ss) \o Concat(Tail(ss))

-----------------------------------------------------------------------------
(* extract_urls_with_regex *)

\* the characters the class [^\s)\]] of url_pattern excludes
Delimiters == {" ", ")", "]"}

\* The least k >= j with k > Len(t) or t[k] a delimiter: where the greedy
\* [^\s)\]]+ stops when it starts at j.
RECURSIVE BodyEnd(_, _)
BodyEnd(t, j) ==
    IF j > Len(t) \/ t[j] \in Delimiters THEN j ELSE BodyEnd(t, j + 1)

\* re.match of url_pattern at token i: the index of the last token matched,
\* 0 when there is no match at i.
MatchEnd(t, i) ==
    IF i > Len(t) \/ t[i] # "http" THEN 0
    ELSE LET j == IF i + 1 <= Len(t) /\ t[i + 1] = "s" THEN i + 2 ELSE i + 1
             e == BodyEnd(t, j + 1)
         IN  IF j <= Len(t) /\ t[j] = "://" /\ e > j + 1 THEN e - 1 ELSE 0

\* re.findall(url_pattern, t) scanning from token i: the non-overlapping
\* matches from left to right.
RECURSIVE FindAll(_, _)
FindAll(t, i) ==
    IF i > Len(t) THEN <<>>
    ELSE LET e == MatchEnd(t, i)
         IN  IF e = 0 THEN FindAll(t, i + 1)
             ELSE <<SubSeq(t, i, e)>> \o FindAll(t, e + 1)

\* link.endswith(('.html', '.htm')) and link.startswith('http')
IsHtmlLink(link) ==
    /\ Len(link) > 0
    /\ link[Len(link)] \in {".html", ".htm"}
    /\ link[1] = "http"

\* [link for link in links if ...]
HtmlLinks(links) == SelectSeq(links, IsHtmlLink)

\* a faulty extract_urls_with_regex: the list is returned without set()
extract_urls_with_regex_nodedup(markdown_content) ==
    IF markdown_content = <<>> THEN {<<>>}
    ELSE {HtmlLinks(FindAll(markdown_content, 1))}

\* The lists extract_urls_with_regex can return: list(set(...)) is any
\* ordering of the set.
extract_urls_with_regex(markdown_content) ==
    IF markdown_content = <<>> THEN {<<>>}
    ELSE ListsOfSet(Range(HtmlLinks(FindAll(markdown_content, 1))))


-----------------------------------------------------------------------------
(* The URLs and page contents of the model *)

\* "https://a": a URL that is no HTML link
UrlA == <<"http", "s", "://", "a">>
\* "http://b.html"
UrlB == <<"http", "://", "b", ".html">>
\* "https://c.htm"
UrlC == <<"http", "s", "://", "c", ".htm">>

Urls == {UrlA, UrlB, UrlC}

\* "x http://b.html"
SeeB == <<"x", " ">> \o UrlB
\* "xhttp://b.html) xhttps://c.htm] http://b.html https://a": two HTML links,
\* one of them twice, closed by brackets, and a link that is no HTML link
Listing == <<"x">> \o UrlB \o <<")", " ", "x">> \o UrlC \o <<"]", " ">>
           \o UrlB \o <<" ">> \o UrlA
\* "x https://a x": a link, but no HTML link
Plain == <<"x", " ">> \o UrlA \o <<" ", "x">>

PageContents == {SeeB, Listing, Plain}

\* What the Fetcher finds at a URL: no markdown at all (the fetch failed or
\* was blocked), an empty markdown, or a content.
FetchOutcomes ==
    {[has_markdown |-> FALSE, raw_markdown |-> <<>>]}
    \cup {[has_markdown |-> TRUE, raw_markdown |-> t] : t \in PageContents \cup {<<>>}}

\* the lists of distinct URLs of length at most n
UrlLists(n) == UNION {ListsOfSet(S) : S \in {T \in SUBSET Urls : Cardinality(T) <= n}}

\* self.system_prompt: None, or a prompt
SystemPrompts == {"None", "extract the urls"}

\* the truth value of self.system_prompt
HasPrompt == system_prompt \notin {"None", ""}

-----------------------------------------------------------------------------
(* crawl_multi_urls *)

\* The result lists crawler.arun_many(us) can return: one result per entry
\* of us, in completion order.
arun_many(us) ==
    Orderings([i \in 1..Len(us) |->
                  [url |-> us[i],
                   has_markdown |-> web[us[i]].has_markdown,
                   raw_markdown |-> web[us[i]].raw_markdown]])

\* a faulty HasContent: the markdown object is tested, its text is not
HasContentByObjectAlone(result) == result.has_markdown

\* result.markdown and result.markdown.raw_markdown
HasContent(result) == result.has_markdown /\ result.raw_markdown # <<>>

\* a faulty Markdowns: the loop stops at the first result without content
RECURSIVE MarkdownsUntilFailure(_)
MarkdownsUntilFailure(results) ==
    IF results = <<>> \/ ~HasContent(Head(results)) THEN <<>>
    ELSE <<[url |-> Head(results).url, markdown |-> Head(results).raw_markdown]>>
         \o MarkdownsUntilFailure(Tail(results))

\* a faulty Markdowns: every result is appended, with or without content
RECURSIVE MarkdownsUnfiltered(_)
MarkdownsUnfiltered(results) ==
    IF results = <<>> THEN <<>>
    ELSE <<[url |-> Head(results).url, markdown |-> Head(results).raw_markdown]>>
         \o MarkdownsUnfiltered(Tail(results))

\* the loop over results: the markdowns list
RECURSIVE Markdowns(_)
Markdowns(results) ==
    IF results = <<>> THEN <<>>
    ELSE (IF HasContent(Head(results))
          THEN <<[url |-> Head(results).url, markdown |-> Head(results).raw_markdown]>>
          ELSE <<>>)
         \o Markdowns(Tail(results))

\* a faulty crawl_multi_urls: the test for an empty list is left out
crawl_multi_urls_unguarded(us) ==
    {[raised |-> TRUE, value |-> <<>>, calls |-> <<us>>, failed |-> TRUE]}
    \cup {[raised |-> FALSE, value |-> Markdowns(r), calls |-> <<us>>, failed |-> FALSE]
            : r \in arun_many(us)}

\* a faulty crawl_multi_urls: the except clause returns [] and does not raise
crawl_multi_urls_swallowing(us) ==
    IF us = <<>>
    THEN {[raised |-> FALSE, value |-> <<>>, calls |-> <<>>, failed |-> FALSE]}
    ELSE {[raised |-> FALSE, value |-> <<>>, calls |-> <<us>>, failed |-> TRUE]}
         \cup {[raised |-> FALSE, value |-> Markdowns(r), calls |-> <<us>>, failed |-> FALSE]
                 : r \in arun_many(us)}

\* The outcomes of crawl_multi_urls(us): whether it raised, the list it
\* returned, the url lists it handed to arun_many, and whether the Fetcher
\* failed as a whole (the crawler or arun_many raised; the except clause logs
\* the exception and raises it again).
crawl_multi_urls(us) ==
    IF us = <<>>
    THEN {[raised |-> FALSE, value |-> <<>>, calls |-> <<>>, failed |-> FALSE]}
    ELSE {[raised |-> TRUE, value |-> <<>>, calls |-> <<us>>, failed |-> TRUE]}
         \cup {[raised |-> FALSE, value |-> Markdowns(r), calls |-> <<us>>, failed |-> FALSE]
                 : r \in arun_many(us)}

-----------------------------------------------------------------------------
(* extract_urls_from_markdowns_with_regex *)

\* "markdown" in md and md["markdown"]
HasMarkdown(md) == md.markdown # <<>>

\* a faulty ExtractedUrls: the loop ends at the first entry without markdown
RECURSIVE ExtractedUrlsUntilEmpty(_, _)
ExtractedUrlsUntilEmpty(markdowns, extracted_urls) ==
    IF markdowns = <<>> \/ ~HasMarkdown(Head(markdowns)) THEN extracted_urls
    ELSE ExtractedUrlsUntilEmpty(Tail(markdowns),
             extracted_urls
             \cup UNION {Range(l) : l \in extract_urls_with_regex(Head(markdowns).markdown)})

\* the loop over markdowns: the set extracted_urls after it, whichever lists
\* extract_urls_with_regex returned
RECURSIVE ExtractedUrls(_, _)
ExtractedUrls(markdowns, extracted_urls) ==
    IF markdowns = <<>> THEN extracted_urls
    ELSE ExtractedUrls(Tail(markdowns),
             IF HasMarkdown(Head(markdowns))
             THEN extracted_urls
                  \cup UNION {Range(l) : l \in extract_urls_with_regex(Head(markdowns).markdown)}
             ELSE extracted_urls)

\* The lists extract_urls_from_markdowns_with_regex can return:
\* list(extracted_urls) is any ordering of the set.
extract_urls_from_markdowns_with_regex(markdowns) ==
    IF markdowns = <<>> THEN {<<>>}
    ELSE ListsOfSet(ExtractedUrls(markdowns, {}))

-----------------------------------------------------------------------------
(* Files *)

FileNames == {"raw_markdowns.md", "all_markdowns.md", "responses.json"}

NoFile == [exists |-> FALSE, blocks |-> <<>>]

\* a faulty WriteOutcomes: the exception of a failed write is not caught
WriteOutcomesUncaught(fs, name, blocks) ==
    {[files |-> [fs EXCEPT ![name] = [exists |-> TRUE, blocks |-> blocks]],
      failed |-> FALSE, raised |-> FALSE],
     [files |-> fs, failed |-> TRUE, raised |-> TRUE]}

\* What a write of blocks to the file name can leave: the file written, or,
\* when the write failed, the files as they were.  The exception of a failed
\* write is caught and logged by the function that writes: it never raises
\* to its caller.
WriteOutcomes(fs, name, blocks) ==
    {[files |-> [fs EXCEPT ![name] = [exists |-> TRUE, blocks |-> blocks]],
      failed |-> FALSE, raised |-> FALSE],
     [files |-> fs, failed |-> TRUE, raised |-> FALSE]}

\* _save_markdowns_to_file: one block per entry that has a markdown
SaveMarkdowns(fs, name, markdowns) ==
    WriteOutcomes(fs, name, SelectSeq(markdowns, HasMarkdown))

\* _save_responses_to_file
SaveResponses(fs, responses) == WriteOutcomes(fs, "responses.json", responses)

\* if save_intermediate_results: self._save_markdowns_to_file(...)
SaveIfAsked(fs, name, markdowns) ==
    IF save_intermediate_results THEN SaveMarkdowns(fs, name, markdowns)
    ELSE {[files |-> fs, failed |-> FALSE, raised |-> FALSE]}

-----------------------------------------------------------------------------
(* extract_urls_from_markdown_with_llm *)

\* What one Extractor call can do.  The call is made inside the try block:
\* it can raise there (call_error: self.client is the synchronous client, the
\* call is not awaited, so a timeout or a malformed response raises at the
\* call), give an awaitable that gather turns into an exception object
\* (task_error), or give a response.  A response is either of the shape of
\* WebScrappingResponseExtractor, a list of records under "responses" and no
\* "url" entry, or a dictionary with a "url" entry, which is what the
\* pipeline reads.
ExtractorOutcomes ==
    {[kind |-> "call_error", has_url |-> FALSE, url |-> <<>>, records |-> <<>>],
     [kind |-> "task_error", has_url |-> FALSE, url |-> <<>>, records |-> <<>>],
     [kind |-> "response", has_url |-> FALSE, url |-> <<>>, records |-> <<>>],
     [kind |-> "response", has_url |-> FALSE, url |-> <<>>, records |-> <<UrlB>>],
     [kind |-> "response", has_url |-> TRUE, url |-> UrlA, records |-> <<>>]}

IsCallError(o) == o.kind = "call_error"
IsResponse(o) == o.kind = "response"

\* the index of the first call that raises, 0 when none does
RECURSIVE FirstCallError(_, _)
FirstCallError(outcomes, i) ==
    IF i > Len(outcomes) THEN 0
    ELSE IF IsCallError(outcomes[i]) THEN i ELSE FirstCallError(outcomes, i + 1)

\* The outcomes of extract_urls_from_markdown_with_llm when the Extractor
\* calls do as outcomes says: the list returned, the calls issued (a call
\* that raises ends the loop: the except clause returns []), the files.
LlmRun(outcomes, fs) ==
    LET k == FirstCallError(outcomes, 1)
    IN  IF k > 0
        THEN {[value |-> <<>>, log |-> SubSeq(outcomes, 1, k), files |-> fs,
               failed |-> FALSE]}
        ELSE {[value |-> IF w.raised THEN <<>> ELSE SelectSeq(outcomes, IsResponse),
               log |-> outcomes, files |-> w.files, failed |-> w.failed]
                 : w \in SaveResponses(fs, SelectSeq(outcomes, IsResponse))}

extract_urls_from_markdown_with_llm(markdowns, fs) ==
    LET tasks == SelectSeq(markdowns, HasMarkdown)
    IN  IF markdowns = <<>> \/ ~HasPrompt \/ tasks = <<>>
        THEN {[value |-> <<>>, log |-> <<>>, files |-> fs, failed |-> FALSE]}
        ELSE UNION {LlmRun(o, fs) : o \in [1..Len(tasks) -> ExtractorOutcomes]}

\* response.get("url")
HasUrl(response) == response.has_url /\ response.url # <<>>

\* [response.get("url", "") for response in extracted_urls if response.get("url")]
RECURSIVE UrlsOfResponses(_)
UrlsOfResponses(responses) ==
    IF responses = <<>> THEN <<>>
    ELSE (IF HasUrl(Head(responses)) THEN <<Head(responses).url>> ELSE <<>>)
         \o UrlsOfResponses(Tail(responses))

-----------------------------------------------------------------------------
(* What a call gives its caller *)

NoReturn == [kind |-> "none", value |-> <<>>]
Returned(v) == [kind |-> "value", value |-> v]
Raised == [kind |-> "raise", value |-> <<>>]

NoFiles == [n \in FileNames |-> NoFile]

\* the variables of a call that has not run yet
Fresh ==
    /\ initial_markdowns = <<>>
    /\ urls_to_crawl = <<>>
    /\ final_markdowns = <<>>
    /\ ret = NoReturn
    /\ again = NoReturn
    /\ fetchLog = <<>>
    /\ fetcherFailed = FALSE
    /\ llm_extracted_urls = <<>>
    /\ llmCalls = 0
    /\ llmLog = <<>>
    /\ strategyLog = <<>>
    /\ files = NoFiles
    /\ saveFailed = FALSE

-----------------------------------------------------------------------------
(* run_crawling_pipeline and a direct call of crawl_multi_urls *)

\* A WebCrawler has been constructed, and one call is about to run:
\* run_crawling_pipeline(urls, use_llm_extraction, save_intermediate_results)
\* or crawl_multi_urls(urls).
Init ==
    /\ web \in [Urls -> FetchOutcomes]
    /\ system_prompt \in SystemPrompts
    /\ urls \in UrlLists(MaxSeeds)
    /\ \/ /\ pc = "Seeded"
          /\ use_llm_extraction \in BOOLEAN
          /\ save_intermediate_results \in BOOLEAN
       \/ /\ pc = "CrawlCalled"
          /\ use_llm_extraction = FALSE
          /\ save_intermediate_results = FALSE
    /\ text = <<>>
    /\ pages = <<>>
    /\ Fresh

inputs == <<web, system_prompt, urls, use_llm_extraction,
            save_intermediate_results, text, pages>>

\* crawl_multi_urls(urls), called directly
Crawl ==
    /\ pc = "CrawlCalled"
    /\ \E c \in crawl_multi_urls(urls) :
          /\ ret' = (IF c.raised THEN Raised ELSE Returned(c.value))
          /\ pc' = (IF c.raised THEN "CrawlRaised" ELSE "CrawlReturned")
          /\ fetchLog' = fetchLog \o c.calls
          /\ fetcherFailed' = (fetcherFailed \/ c.failed)
    /\ UNCHANGED <<inputs, initial_markdowns, urls_to_crawl, final_markdowns,
                   again, llmVars, strategyLog, files, saveFailed>>

\* if not urls: return []
RunEmpty ==
    /\ pc = "Seeded"
    /\ urls = <<>>
    /\ pc' = "Merged"
    /\ ret' = Returned(<<>>)
    /\ UNCHANGED <<inputs, initial_markdowns, urls_to_crawl, final_markdowns,
                   again, fetchLog, fetcherFailed, llmVars, strategyLog, files, saveFailed>>

\* Step 1: initial crawling, and the save of its result
Stage1 ==
    /\ pc = "Seeded"
    /\ urls # <<>>
    /\ \E c \in crawl_multi_urls(urls) :
          /\ fetchLog' = fetchLog \o c.calls
          /\ fetcherFailed' = (fetcherFailed \/ c.failed)
          /\ IF c.raised
             THEN /\ pc' = "Raised"
                  /\ ret' = Raised
                  /\ UNCHANGED <<initial_markdowns, files, saveFailed>>
             ELSE /\ initial_markdowns' = c.value
                  /\ \E w \in SaveIfAsked(files, "raw_markdowns.md", c.value) :
                        /\ files' = w.files
                        /\ saveFailed' = (saveFailed \/ w.failed)
                        /\ pc' = (IF w.raised THEN "Raised" ELSE "Stage1Fetched")
                        /\ ret' = (IF w.raised THEN Raised ELSE ret)
    /\ UNCHANGED <<inputs, urls_to_crawl, final_markdowns, again, llmVars,
                   strategyLog>>

\* a faulty AfterDiscovery: the test for an empty urls_to_crawl is left out
AfterDiscoveryAlwaysCrawls(found) ==
    /\ urls_to_crawl' = found
    /\ pc' = "Discovered"
    /\ UNCHANGED ret

\* a faulty AfterDiscovery: with nothing found, the empty list is returned
AfterDiscoveryReturnsEmpty(found) ==
    /\ urls_to_crawl' = found
    /\ IF found = <<>>
       THEN pc' = "Merged" /\ ret' = Returned(<<>>)
       ELSE pc' = "Discovered" /\ UNCHANGED ret

\* what follows the discovery: return initial_markdowns when nothing was found
AfterDiscovery(found) ==
    /\ urls_to_crawl' = found
    /\ IF found = <<>>
       THEN pc' = "Merged" /\ ret' = Returned(initial_markdowns)
       ELSE pc' = "Discovered" /\ UNCHANGED ret

\* a faulty UseLlm: the flag is not looked at
UseLlmByPromptAlone == HasPrompt

\* a faulty UseLlm: the prompt is not looked at
UseLlmByFlagAlone == use_llm_extraction

\* if use_llm_extraction and self.system_prompt
UseLlm == use_llm_extraction /\ HasPrompt

\* Step 2 with the LLM
DiscoverWithLlm ==
    /\ pc = "Stage1Fetched"
    /\ UseLlm
    /\ strategyLog' = Append(strategyLog, "llm")
    /\ \E x \in extract_urls_from_markdown_with_llm(initial_markdowns, files) :
          /\ llm_extracted_urls' = x.value
          /\ llmCalls' = llmCalls + Len(x.log)
          /\ llmLog' = llmLog \o x.log
          /\ files' = x.files
          /\ saveFailed' = (saveFailed \/ x.failed)
          /\ AfterDiscovery(UrlsOfResponses(x.value))
    /\ UNCHANGED <<inputs, initial_markdowns, final_markdowns, again, fetchLog,
                   fetcherFailed>>

\* Step 2 otherwise
DiscoverWithRegex ==
    /\ pc = "Stage1Fetched"
    /\ ~UseLlm
    /\ strategyLog' = Append(strategyLog, "regex")
    /\ \E found \in extract_urls_from_markdowns_with_regex(initial_markdowns) :
          AfterDiscovery(found)
    /\ UNCHANGED <<inputs, initial_markdowns, final_markdowns, again, fetchLog,
                   fetcherFailed, llmVars, files, saveFailed>>

\* Step 3: crawl extracted URLs
Stage2 ==
    /\ pc = "Discovered"
    /\ \E c \in crawl_multi_urls(urls_to_crawl) :
          /\ fetchLog' = fetchLog \o c.calls
          /\ fetcherFailed' = (fetcherFailed \/ c.failed)
          /\ IF c.raised
             THEN /\ pc' = "Raised"
                  /\ ret' = Raised
                  /\ UNCHANGED final_markdowns
             ELSE /\ pc' = "Stage2Fetched"
                  /\ final_markdowns' = c.value
                  /\ UNCHANGED ret
    /\ UNCHANGED <<inputs, initial_markdowns, urls_to_crawl, again, llmVars,
                   strategyLog, files, saveFailed>>

\* all_markdowns, in a faulty Merge that puts the second stage first
AllMarkdownsReversed == final_markdowns \o initial_markdowns

\* all_markdowns = initial_markdowns + final_markdowns
AllMarkdowns == initial_markdowns \o final_markdowns

\* a faulty Merge: the combined list is taken as a first-stage result, and
\* the run goes on to discover and fetch the URLs found in it
MergeRecursing ==
    /\ pc = "Stage2Fetched"
    /\ pc' = "Stage1Fetched"
    /\ initial_markdowns' = AllMarkdowns
    /\ final_markdowns' = <<>>
    /\ UNCHANGED <<inputs, urls_to_crawl, ret, again, fetchLog, fetcherFailed,
                   llmVars, strategyLog, files, saveFailed>>

\* Combine results, save them, return them
Merge ==
    /\ pc = "Stage2Fetched"
    /\ \E w \in SaveIfAsked(files, "all_markdowns.md", AllMarkdowns) :
          /\ files' = w.files
          /\ saveFailed' = (saveFailed \/ w.failed)
          /\ pc' = (IF w.raised THEN "Raised" ELSE "Merged")
          /\ ret' = (IF w.raised THEN Raised ELSE Returned(AllMarkdowns))
    /\ UNCHANGED <<inputs, initial_markdowns, urls_to_crawl, final_markdowns,
                   again, fetchLog, fetcherFailed, llmVars, strategyLog>>

Next ==
    \/ Crawl
    \/ RunEmpty
    \/ Stage1
    \/ DiscoverWithLlm
    \/ DiscoverWithRegex
    \/ Stage2
    \/ Merge

Spec == Init /\ [][Next]_vars

-----------------------------------------------------------------------------
(* extract_urls_with_regex, called on its own *)

\* the pieces a text is put together from: two links and the single tokens
Pieces ==
    {<<"http", "://", "x", ".html">>, <<"http", "s", "://", "x", ".htm">>,
     <<"http">>, <<"s">>, <<"://">>, <<"x">>, <<".html">>, <<" ">>, <<")">>, <<"]">>}

\* the texts of at most n pieces
Texts(n) == UNION {{Concat(ps) : ps \in [1..k -> Pieces]} : k \in 0..n}

\* a web where every fetch fails, for the calls that fetch nothing
NoWeb == [u \in Urls |-> [has_markdown |-> FALSE, raw_markdown |-> <<>>]]

\* the variables a call of a pure function does not use
Unused ==
    /\ web = NoWeb
    /\ system_prompt = "None"
    /\ urls = <<>>
    /\ use_llm_extraction = FALSE
    /\ save_intermediate_results = FALSE

InitExtract ==
    /\ pc = "ExtractCalled"
    /\ text \in Texts(MaxPieces)
    /\ pages = <<>>
    /\ Unused
    /\ Fresh

\* extract_urls_with_regex(text)
Extract ==
    /\ pc = "ExtractCalled"
    /\ pc' = "ExtractReturned"
    /\ \E l \in extract_urls_with_regex(text) : ret' = Returned(l)
    /\ UNCHANGED <<inputs, initial_markdowns, urls_to_crawl, final_markdowns,
                   again, fetchLog, fetcherFailed, llmVars, strategyLog, files, saveFailed>>

NextExtract == Extract

SpecExtract == InitExtract /\ [][NextExtract]_vars

-----------------------------------------------------------------------------
(* extract_urls_from_markdowns_with_regex, called on its own, twice *)

\* the entries of a markdowns list: a url and a markdown, which may be empty
PageEntries ==
    {[url |-> u, markdown |-> t] : u \in {UrlA, UrlB}, t \in PageContents \cup {<<>>}}

\* the markdowns lists of at most n entries
PageLists(n) == UNION {[1..k -> PageEntries] : k \in 0..n}

InitDiscover ==
    /\ pc = "DiscoverCalled"
    /\ pages \in PageLists(MaxPages)
    /\ text = <<>>
    /\ Unused
    /\ Fresh

\* extract_urls_from_markdowns_with_regex(pages)
Discover ==
    /\ pc = "DiscoverCalled"
    /\ pc' = "DiscoverReturned"
    /\ \E l \in extract_urls_from_markdowns_with_regex(pages) : ret' = Returned(l)
    /\ UNCHANGED <<inputs, initial_markdowns, urls_to_crawl, final_markdowns,
                   again, fetchLog, fetcherFailed, llmVars, strategyLog, files, saveFailed>>

\* extract_urls_from_markdowns_with_regex once more, on pages in any order
DiscoverAgain ==
    /\ pc = "DiscoverReturned"
    /\ pc' = "DiscoverRepeated"
    /\ \E q \in Orderings(pages) :
          \E l \in extract_urls_from_markdowns_with_regex(q) : again' = Returned(l)
    /\ UNCHANGED <<inputs, initial_markdowns, urls_to_crawl, final_markdowns,
                   ret, fetchLog, fetcherFailed, llmVars, strategyLog, files, saveFailed>>

NextDiscover ==
    \/ Discover
    \/ DiscoverAgain

SpecDiscover == InitDiscover /\ [][NextDiscover]_vars

-----------------------------------------------------------------------------
(* Properties *)

\* the positions of a run of run_crawling_pipeline
RunPcs == {"Seeded", "Stage1Fetched", "Discovered", "Stage2Fetched", "Merged", "Raised"}

\* the fetch of u produces a non-empty content
Live(u) == web[u].has_markdown /\ web[u].raw_markdown # <<>>

\* the number of entries of us whose fetch produces a non-empty content
LiveCount(us) == Cardinality({i \in 1..Len(us) : Live(us[i])})

\* the first stage's crawl_multi_urls has returned
Stage1Returned ==
    \/ pc \in {"Stage1Fetched", "Discovered", "Stage2Fetched"}
    \/ pc = "Merged" /\ urls # <<>>
    \/ pc = "Raised" /\ Len(fetchLog) = 2

\* the second stage's crawl_multi_urls has returned
Stage2Returned ==
    \/ pc = "Stage2Fetched"
    \/ pc = "Merged" /\ Len(fetchLog) = 2

\* the calls of crawl_multi_urls that have returned: argument and result
CrawlReturns ==
    (IF pc = "CrawlReturned" THEN {[arg |-> urls, out |-> ret.value]} ELSE {})
    \cup (IF Stage1Returned THEN {[arg |-> urls, out |-> initial_markdowns]} ELSE {})
    \cup (IF Stage2Returned THEN {[arg |-> urls_to_crawl, out |-> final_markdowns]} ELSE {})

\* C1, as stated: every crawl_multi_urls call that returns gives one entry
\* per input URL, failed URLs included.
C1_OneResultPerUrl == \A c \in CrawlReturns : Len(c.out) = Len(c.arg)

\* C1, amended: every crawl_multi_urls call that returns gives one entry per
\* input URL whose fetch produced a non-empty content, and no entry for the
\* other URLs: its length is the number of content-bearing URLs, at most the
\* number of input URLs.
C1_OneResultPerLiveUrl ==
    \A c \in CrawlReturns :
        /\ Len(c.out) = LiveCount(c.arg)
        /\ Len(c.out) <= Len(c.arg)
        /\ \A j \in 1..Len(c.out) : c.out[j].markdown # <<>>

\* C1, witness: a direct call on two URLs returned one entry.
C1_Witness == pc = "CrawlReturned" /\ Len(urls) = 2 /\ Len(ret.value) = 1

\* C2, as stated: the URLs handed to the second-stage fetch hold no URL that
\* has a first-stage entry.
C2_NoRediscovery ==
    pc \in {"Discovered", "Stage2Fetched"} =>
        Range(urls_to_crawl) \cap {initial_markdowns[i].url : i \in 1..Len(initial_markdowns)} = {}

\* C3, as stated: a run never ends by raising to its caller.
C3_RunNeverRaises == pc \in RunPcs => ret.kind # "raise"

\* C3, amended: when a fetch batch fails as a whole in either stage the run
\* ends by raising to its caller, with no list returned, and a run that
\* reaches Merged returns a list and saw no such failure.
C3_FetchFailureRaises ==
    pc \in RunPcs =>
        /\ fetcherFailed => pc = "Raised" /\ ret = Raised
        /\ pc = "Raised" => fetcherFailed
        /\ pc = "Merged" => ret.kind = "value"

\* C3, witness: the second-stage fetch failed after a first stage that had
\* results, and the run raised.
C3_Witness ==
    pc = "Raised" /\ Len(fetchLog) = 2 /\ initial_markdowns # <<>> /\ ret = Raised

\* C4: in every crawl_multi_urls call whose Fetcher did not fail as a whole,
\* the entry of every URL with a content is returned whatever happened to the
\* other URLs of the batch, and the call raises only when the Fetcher failed
\* as a whole.
C4_FailedUrlKeepsOthers ==
    /\ \A c \in CrawlReturns :
          \A i \in 1..Len(c.arg) :
              Live(c.arg[i]) =>
                  \E j \in 1..Len(c.out) :
                      c.out[j] = [url |-> c.arg[i], markdown |-> web[c.arg[i]].raw_markdown]
    /\ pc \in {"CrawlRaised", "Raised"} => fetcherFailed

\* C4, witness: a direct call on a batch with a failed URL and a URL with a
\* content returned the entry of the latter.
C4_Witness ==
    /\ pc = "CrawlReturned"
    /\ \E i, j \in 1..Len(urls) :
          /\ ~web[urls[i]].has_markdown
          /\ Live(urls[j])
          /\ ret.value = <<[url |-> urls[j], markdown |-> web[urls[j]].raw_markdown]>>

\* C5, as stated: with the LLM strategy asked for and no prompt configured,
\* nothing is ever fetched.
C5_NoFetchWithoutPrompt ==
    (pc \in RunPcs /\ use_llm_extraction /\ ~HasPrompt) => fetchLog = <<>>

\* C5, amended: with the LLM strategy asked for and no prompt configured, the
\* run goes on as a run with the regex strategy: no Extractor call is made,
\* the only strategy invoked is the regex one, and it is invoked before any
\* second-stage fetch.
C5_FallsBackToRegex ==
    (pc \in RunPcs /\ use_llm_extraction /\ ~HasPrompt) =>
        /\ llmCalls = 0
        /\ strategyLog \in {<<>>, <<"regex">>}
        /\ pc \in {"Discovered", "Stage2Fetched"} => strategyLog = <<"regex">>
        /\ files["responses.json"] = NoFile

\* C5, witness: such a run fetched both stages and returned.
C5_Witness ==
    /\ use_llm_extraction /\ ~HasPrompt
    /\ pc = "Merged" /\ Len(fetchLog) = 2 /\ strategyLog = <<"regex">>

\* C6: for an empty urls argument the Fetcher is never invoked, both
\* functions return the empty list, and a run goes from Seeded to Merged
\* with no stage in between.
C6_EmptyInputNoFetch ==
    urls = <<>> =>
        /\ fetchLog = <<>>
        /\ ~fetcherFailed
        /\ strategyLog = <<>>
        /\ pc \in {"Seeded", "Merged", "CrawlCalled", "CrawlReturned"}
        /\ pc \in {"Merged", "CrawlReturned"} => ret = Returned(<<>>)

\* C6, witness: crawl_multi_urls([]) returned.
C6_Witness == urls = <<>> /\ pc = "CrawlReturned" /\ ret = Returned(<<>>)

\* Scenario C: a run with the regex strategy on one seed URL whose fetch
\* gives no content, the Fetcher itself not failing.
ScenarioC ==
    /\ pc \in RunPcs
    /\ ~use_llm_extraction
    /\ Len(urls) = 1
    /\ ~Live(urls[1])
    /\ ~fetcherFailed

\* C7, as stated: in scenario C the list returned holds one entry, the
\* failed one, and one fetch was issued.
C7_FailedEntryKept ==
    (ScenarioC /\ pc = "Merged") => Len(ret.value) = 1 /\ Len(fetchLog) = 1

\* C7, amended: in scenario C the first-stage result is empty (the failed
\* fetch leaves no entry), discovery finds nothing, no second-stage fetch is
\* issued, and the list returned is empty.
C7_FailedSeedGivesEmptyCorpus ==
    ScenarioC =>
        /\ pc \in {"Seeded", "Stage1Fetched", "Merged"}
        /\ initial_markdowns = <<>>
        /\ urls_to_crawl = <<>>
        /\ Len(fetchLog) <= 1
        /\ pc = "Merged" =>
              ret = Returned(<<>>) /\ fetchLog = <<urls>> /\ strategyLog = <<"regex">>

\* C7, witness: a run of scenario C returned.
C7_Witness == ScenarioC /\ pc = "Merged" /\ strategyLog = <<"regex">>

\* C8: the list a two-stage run returns is the first-stage list followed by
\* the second-stage list, and the first-stage list is never changed once the
\* first stage has completed.
C8_CorpusIsStage1ThenStage2 ==
    [][/\ (pc = "Stage2Fetched" /\ pc' = "Merged") =>
              /\ ret'.value = initial_markdowns \o final_markdowns
              /\ SubSeq(ret'.value, 1, Len(initial_markdowns)) = initial_markdowns
       /\ pc \in {"Stage1Fetched", "Discovered", "Stage2Fetched"} =>
              initial_markdowns' = initial_markdowns]_vars

\* C8, witness: a run returned after two stages that both had results, the
\* two lists being different.
C8_Witness ==
    /\ pc = "Merged" /\ Len(fetchLog) = 2
    /\ initial_markdowns # <<>> /\ final_markdowns # <<>>
    /\ initial_markdowns # final_markdowns
    /\ ret = Returned(initial_markdowns \o final_markdowns)

\* the URL grammar: http, an optional s, ://, then one or more characters
\* that are neither whitespace nor a closing bracket
UrlGrammar(u) ==
    /\ Len(u) >= 3
    /\ u[1] = "http"
    /\ LET j == IF u[2] = "s" THEN 3 ELSE 2
       IN  /\ u[j] = "://"
           /\ Len(u) > j
           /\ \A k \in (j + 1)..Len(u) : u[k] \notin {" ", ")", "]"}

\* the filter: an HTML suffix and the http scheme
HtmlFilter(u) == u[1] = "http" /\ u[Len(u)] \in {".html", ".htm"}

\* the distinct substrings of t that match the grammar and pass the filter
MatchingSubstrings(t) ==
    {u \in {SubSeq(t, i, j) : i, j \in 1..Len(t)} : UrlGrammar(u) /\ HtmlFilter(u)}

\* C9: the list extract_urls_with_regex returns has no duplicates, each of
\* its elements is a substring of the text that matches the URL grammar and
\* passes the filter, it is no longer than the number of distinct such
\* substrings, and it is empty for the empty text.
C9_ExtractIsFilteredSet ==
    pc = "ExtractReturned" =>
        /\ ret.kind = "value"
        /\ \A i, j \in 1..Len(ret.value) : ret.value[i] = ret.value[j] => i = j
        /\ Range(ret.value) \subseteq MatchingSubstrings(text)
        /\ Len(ret.value) <= Cardinality(MatchingSubstrings(text))
        /\ text = <<>> => ret.value = <<>>

\* C9, witness: the text holds the same HTML link twice and the list
\* returned holds it once.
C9_Witness ==
    /\ pc = "ExtractReturned"
    /\ Len(FindAll(text, 1)) = 2
    /\ FindAll(text, 1)[1] = FindAll(text, 1)[2]
    /\ ret.value = <<FindAll(text, 1)[1]>>

\* the union, over the entries of ps that have a markdown, of the URLs in
\* the lists extract_urls_with_regex can return for that markdown
UnionOfExtracts(ps) ==
    UNION {UNION {Range(l) : l \in extract_urls_with_regex(ps[i].markdown)}
             : i \in {k \in 1..Len(ps) : ps[k].markdown # <<>>}}

\* C10: the regex discovery returns the union of the per-page extractions,
\* and a second application, to the same list in any order, returns the same
\* set.
C10_RegexDiscoveryIsDeterministicSet ==
    /\ pc \in {"DiscoverReturned", "DiscoverRepeated"} =>
          /\ Range(ret.value) = UnionOfExtracts(pages)
          /\ Len(ret.value) = Cardinality(Range(ret.value))
    /\ pc = "DiscoverRepeated" => Range(again.value) = Range(ret.value)

\* C10, witness: two applications to a list of two pages, one without a
\* markdown, returned the same two URLs in different orders.
C10_Witness ==
    /\ pc = "DiscoverRepeated"
    /\ Len(pages) = 2
    /\ pages[1].markdown = <<>>
    /\ Len(ret.value) = 2
    /\ again.value # ret.value
    /\ Range(again.value) = Range(ret.value)

\* C11: a failed write of the first-stage or of the final snapshot never ends
\* a run: a run in which a write failed raises only when the Fetcher failed,
\* each stage's result is what crawl_multi_urls gives for its URLs, and the
\* run returns the first stage's result followed by the second's.
C11_SaveFailureIsNotFatal ==
    (pc \in RunPcs /\ saveFailed) =>
        /\ pc = "Raised" => fetcherFailed
        /\ Stage1Returned =>
              \E c \in crawl_multi_urls(urls) : ~c.raised /\ c.value = initial_markdowns
        /\ Stage2Returned =>
              \E c \in crawl_multi_urls(urls_to_crawl) :
                  ~c.raised /\ c.value = final_markdowns
        /\ pc = "Merged" =>
              ret = Returned(IF Stage2Returned
                             THEN initial_markdowns \o final_markdowns
                             ELSE initial_markdowns)

\* C11, witness: both snapshots were asked for, both writes failed, and the
\* run fetched both stages and returned a non-empty Corpus.
C11_Witness ==
    /\ pc = "Merged" /\ save_intermediate_results /\ saveFailed
    /\ files["raw_markdowns.md"] = NoFile
    /\ files["all_markdowns.md"] = NoFile
    /\ Len(fetchLog) = 2
    /\ final_markdowns # <<>>
    /\ ret.value = initial_markdowns \o final_markdowns

\* the pages of the first stage for which an Extractor call is due
Tasks == SelectSeq(initial_markdowns, HasMarkdown)

\* the LLM discovery has run
LlmDiscoveryDone == pc \in RunPcs /\ strategyLog = <<"llm">>

\* the Extractor calls issued that failed
FailedCalls == {i \in 1..Len(llmLog) : ~IsResponse(llmLog[i])}

\* C12: when the LLM discovery has issued the call of every page and exactly
\* one of the calls failed, the discovery returns the responses of all the
\* other calls, in order: the failed call alone contributes nothing.
C12_FailedCallKeepsOthers ==
    (LlmDiscoveryDone /\ Len(llmLog) = Len(Tasks) /\ Cardinality(FailedCalls) = 1) =>
        llm_extracted_urls = SelectSeq(llmLog, IsResponse)

\* the URLs of the records a response carries: the records under
\* "responses", or the one record that the response itself is
RecordsOf(response) ==
    IF response.has_url THEN <<response.url>> ELSE response.records

\* the URLs of all the records of all the responses in log
RecordUrls(log) == UNION {Range(RecordsOf(log[i])) : i \in 1..Len(log)}

\* C13: when the LLM discovery has issued the call of every page and every
\* call gave a response, the list handed on as urls_to_crawl holds each URL
\* of each record of each response, and holds it once.
C13_UnionOfRecordUrls ==
    (LlmDiscoveryDone /\ Len(llmLog) = Len(Tasks) /\ FailedCalls = {}) =>
        /\ Range(urls_to_crawl) = RecordUrls(llmLog)
        /\ Len(urls_to_crawl) = Cardinality(Range(urls_to_crawl))

\* the discovery step of a run is over
DiscoveryDone ==
    \/ pc \in {"Discovered", "Stage2Fetched"}
    \/ pc = "Merged" /\ urls # <<>>
    \/ pc = "Raised" /\ Len(fetchLog) = 2

\* C14, as stated: a run that reached the discovery step invoked one
\* strategy, the LLM one when use_llm_extraction is true and the regex one
\* when it is false.
C14_StrategyByFlagAlone ==
    (pc \in RunPcs /\ DiscoveryDone) =>
        strategyLog = <<IF use_llm_extraction THEN "llm" ELSE "regex">>

\* C14, amended: a run invokes no strategy before its discovery step and
\* exactly one in it: the LLM one when use_llm_extraction is true and a
\* system prompt is configured, the regex one otherwise; a run that invoked
\* the regex strategy made no Extractor call.
C14_StrategyByFlagAndPrompt ==
    pc \in RunPcs =>
        /\ ~DiscoveryDone => strategyLog = <<>>
        /\ DiscoveryDone =>
              strategyLog = <<IF use_llm_extraction /\ system_prompt \notin {"None", ""}
                              THEN "llm" ELSE "regex">>
        /\ strategyLog = <<"regex">> => llmLog = <<>> /\ llm_extracted_urls = <<>>

\* C14, witness: with the flag true and a prompt configured, a run invoked
\* the LLM strategy alone, made its Extractor calls and fetched both stages.
C14_Witness ==
    /\ pc = "Merged" /\ use_llm_extraction /\ system_prompt \notin {"None", ""}
    /\ strategyLog = <<"llm">>
    /\ Len(llmLog) = 2
    /\ Len(fetchLog) = 2

\* C15: when the discovery of a run found nothing, the run is at Merged
\* without a second Fetcher call, and what it returned is the first stage's
\* result.
C15_EmptyDiscoverySkipsStage2 ==
    (pc \in RunPcs /\ DiscoveryDone /\ urls_to_crawl = <<>>) =>
        /\ pc = "Merged"
        /\ fetchLog = <<urls>>
        /\ final_markdowns = <<>>
        /\ ret = Returned(initial_markdowns)

\* C15, witness: the first stage fetched two pages, the discovery found
\* nothing in them, and the run returned the two pages.
C15_Witness ==
    /\ pc = "Merged" /\ strategyLog = <<"regex">> /\ urls_to_crawl = <<>>
    /\ Len(initial_markdowns) = 2
    /\ ret.value = initial_markdowns

\* the states of a run, in the order of the pipeline
PipelineOrder == <<"Seeded", "Stage1Fetched", "Discovered", "Stage2Fetched", "Merged">>

\* the place of the state p in that order
Place(p) == CHOOSE i \in 1..Len(PipelineOrder) : PipelineOrder[i] = p

\* a step of a run goes forward in the order, or ends the run with the
\* exception, and leaves at most two Fetcher calls, the first with urls and
\* the second with urls_to_crawl, and at most one strategy invoked
ForwardStep ==
    /\ pc' = "Raised" \/ Place(pc') > Place(pc)
    /\ Len(strategyLog') <= 1
    /\ fetchLog' \in {<<>>, <<urls>>, <<urls, urls_to_crawl'>>}

\* C16: every step of a run goes to a later state of the order Seeded,
\* Stage1Fetched, Discovered, Stage2Fetched, Merged, or ends the run with
\* the exception; the Fetcher is invoked at most twice, first with urls and
\* then with urls_to_crawl, and a strategy at most once.
C16_ForwardOnlyTwoFetches == [][(pc \in RunPcs) => ForwardStep]_vars

\* C16, witness: a run returned after two stages, and the second stage's
\* pages hold an HTML link that neither stage fetched.
C16_Witness ==
    /\ pc = "Merged" /\ Len(fetchLog) = 2 /\ Len(strategyLog) = 1
    /\ \E u \in ExtractedUrls(final_markdowns, {}) :
          u \notin Range(urls) \cup Range(urls_to_crawl)

\* the characters of a token, as code points
CodePoints(token) ==
    CASE token = "http"  -> <<104, 116, 116, 112>>
      [] token = "s"     -> <<115>>
      [] token = "://"   -> <<58, 47, 47>>
      [] token = ".html" -> <<46, 104, 116, 109, 108>>
      [] token = ".htm"  -> <<46, 104, 116, 109>>
      [] token = "a"     -> <<97>>
      [] token = "b"     -> <<98>>
      [] token = "c"     -> <<99>>
      [] token = "x"     -> <<120>>
      [] token = " "     -> <<32>>
      [] token = ")"     -> <<41>>
      [] token = "]"     -> <<93>>

\* the characters of a string given as a sequence of tokens
RECURSIVE Spell(_)
Spell(u) == IF u = <<>> THEN <<>> ELSE CodePoints(Head(u)) \o Spell(Tail(u))

\* s comes before t, or is t, in the lexicographic order of strings
RECURSIVE LexLeq(_, _)
LexLeq(s, t) ==
    IF s = <<>> THEN TRUE
    ELSE IF t = <<>> THEN FALSE
    ELSE IF Head(s) # Head(t) THEN Head(s) < Head(t)
    ELSE LexLeq(Tail(s), Tail(t))

\* the list of URLs us is in lexicographic order
IsSorted(us) ==
    \A i \in 1..Len(us) : \A j \in i..Len(us) : LexLeq(Spell(us[i]), Spell(us[j]))

\* C17: the list of URLs handed to the second Fetcher call is in
\* lexicographic order.
C17_Stage2UrlsSorted ==
    (pc \in RunPcs /\ Len(fetchLog) = 2) => IsSorted(fetchLog[2])

\* every entry of the list ms is the non-empty content fetched at its URL
AllContentBearing(ms) ==
    \A i \in 1..Len(ms) :
        /\ ms[i].markdown # <<>>
        /\ ms[i].markdown = web[ms[i].url].raw_markdown

\* C18: every entry of a list crawl_multi_urls returned, and every entry of
\* the list a run returned, has a non-empty content, and the list a run
\* returned has as many entries as the first stage's URLs with a non-empty
\* content plus, when the second stage ran, the second stage's.
C18_CorpusHasNoEmptyEntry ==
    /\ \A r \in CrawlReturns : AllContentBearing(r.out)
    /\ pc = "Merged" =>
          /\ AllContentBearing(ret.value)
          /\ Len(ret.value) = LiveCount(urls)
                              + (IF Stage2Returned THEN LiveCount(urls_to_crawl) ELSE 0)

\* C18, witness: a two-stage run returned; in each stage one URL was
\* fetched with an empty content and has no entry in the returned list.
C18_Witness ==
    /\ pc = "Merged" /\ Len(fetchLog) = 2
    /\ \E i \in 1..Len(urls) :
          web[urls[i]].has_markdown /\ web[urls[i]].raw_markdown = <<>>
    /\ \E i \in 1..Len(urls_to_crawl) :
          /\ web[urls_to_crawl[i]].has_markdown
          /\ web[urls_to_crawl[i]].raw_markdown = <<>>
    /\ final_markdowns # <<>>
    /\ Len(ret.value) < Len(urls) + Len(urls_to_crawl)

=============================================================================
